---- MODULE Spec2Model ----
(***************************************************************************)
(* Model of the vision dispatch pipeline of the worker (src/src/index.ts): *)
(* the fetch handler's /v1/vision/* route and progressWrappedSSE, the      *)
(* stream synthesizer that merges locally generated SSE frames with the    *)
(* passthrough of the upstream provider's event stream.                    *)
(*                                                                         *)
(* One inbound request is modelled.  Time is a clock that advances in      *)
(* steps of the soft-progress period.  The two setInterval timers run at   *)
(* their due time, or LateMs after it (scheduling jitter), at the points   *)
(* where start() is suspended on an await.                                 *)
(***************************************************************************)
EXTENDS Integers, Sequences, FiniteSets, TLC

VARIABLES
  env,        \* the Env bindings read by progressWrappedSSE
  req,        \* the inbound Request
  sent,       \* the requests sent to the providers, in order
  streamFlag, \* fetch: streamFlag
  pc,         \* position of the handler / of start(controller)
  upCalls,    \* number of upstream fetch() calls issued so far
  upstream,   \* upstreamPromise: "none" | "pending" | "resolved" | "rejected"
  up,         \* the upstream Response: [status, body, text]
  upRead,     \* chunks the reader has returned so far, in order
  upEnd,      \* how reading the body ended: "no" | "done" | "fault"
  transport,  \* the ReadableStream: "none" | "open" | "closed" | "cancelled" | "errored"
  out,        \* every Uint8Array enqueued on the controller, in order
  resp,       \* the Response returned by fetch: [kind, status, body]
  started,    \* progressWrappedSSE: started
  progress,   \* progressWrappedSSE: progress (in 1/Scale)
  lastEmit,   \* progressWrappedSSE: lastEmit
  hbArmed,    \* hbTimer is set and not cleared
  softArmed,  \* softTicker is set and not cleared
  hbDue,      \* clock value at which the heartbeat interval is due next
  softDue,    \* clock value at which the soft-progress interval is due next
  lateLeft,   \* how many more times the scheduler delays a due callback
  now,        \* the clock, Date.now()
  db,         \* the rows of table prompts, prompt_id being the index
  inflight,   \* the requests of the prompts API that are at an await
  writes,     \* how many write requests have arrived
  reply,      \* the response of the prompts request that returned last
  kv,         \* the KV namespace PROMPT_CACHE: key -> value
  reads       \* how many read requests have arrived

vars == <<env, req, sent, streamFlag, pc, upCalls, upstream, up, upRead, upEnd, transport,
          out, resp, started, progress, lastEmit, hbArmed, softArmed, hbDue,
          softDue, lateLeft, now, db, inflight, writes, reply, kv, reads>>

\* the state of the prompts API
promptVars == <<db, inflight, writes, reply, kv, reads>>

----------------------------------------------------------------------------
(* Bounds of the model *)

\* the clock advances at most this many steps of SOFT_TICK_MS
MaxSteps == 13
\* the upstream body delivers at most this many chunks
MaxChunks == 2
\* the upstream delivers its chunks, the client may go away and the
\* scheduler may delay a callback within this many clock steps of the
\* request; the body may end or fail later
MaxActiveSteps == 2
\* the scheduler delays due interval callbacks at most this many times
MaxLateRuns == 1
\* a delayed interval callback runs this many ms after it was due
LateMs == 200
\* Date.now() when the request arrives
StartedMs == 1000000

(* Program constants *)

SOFT_TICK_MS == 250
THROTTLE_MS == 200
HEARTBEAT_MIN_MS == 3000
HEARTBEAT_DEFAULT_MS == 7000
TOTAL_DEFAULT_MS == 3500
EST_MIN_MS == 1200

\* fractions 0..1 are integers in units of 1/Scale; 21000 makes 0.02, 0.35,
\* 0.9, 0.99, 0.999 and elapsed/est for est in {1200, 3500} exact
Scale == 21 * 1000
Frac(num, den) == (num * Scale) \div den

Min(a, b) == IF a < b THEN a ELSE b
Max(a, b) == IF a > b THEN a ELSE b

----------------------------------------------------------------------------
(* Bytes.  A Uint8Array is a sequence of tokens; a token stands for a run  *)
(* of bytes without a line feed, or for one line feed.                     *)

Tok(k, s, n, m, x) == [k |-> k, s |-> s, n |-> n, m |-> m, x |-> x]
NL == Tok("nl", "", 0, 0, 0)
\* "event: <type>"
EventTok(type) == Tok("event", type, 0, 0, 0)
\* "data: " followed by JSON.stringify(data); s is the phase or code,
\* n, m, x the numeric fields of the object in their order
DataTok(s, n, m, x) == Tok("data", s, n, m, x)
\* the upstream's own bytes: part 1 of event e is "data: {..." up to some
\* byte of the line, part 2 is the rest of that line
UpTok(e, part) == Tok("up", "", e, part, 0)

sseLine(type, data) ==
  (IF type # "" THEN <<EventTok(type), NL>> ELSE <<>>) \o <<data, NL, NL>>

\* percent: Math.round(progress * 1000) / 10, kept in tenths of a percent
Pct10(p) == (p * 1000 + Scale \div 2) \div Scale

QueuedFrame == sseLine("progress", DataTok("queued", 50, 0, 0))
SelectingFrame == sseLine("progress", DataTok("selecting_provider", 100, 0, 0))
HeadersFrame(p, ttfb, status) ==
  sseLine("progress", DataTok("headers_received", Pct10(p), ttfb, status))
HeartbeatFrame(ts) == sseLine("heartbeat", DataTok("", ts, 0, 0))
WaitFrame(p) == sseLine("progress", DataTok("upstream_wait", Pct10(p), 0, 0))
NoBodyFrameWrongCode == sseLine("error", DataTok("UPSTREAM_READ", 0, 0, 0))
NoBodyFrame == sseLine("error", DataTok("NO_UPSTREAM_BODY", 0, 0, 0))
ReadErrorFrame == sseLine("error", DataTok("UPSTREAM_READ", 0, 0, 0))
FinalizeFrame == sseLine("progress", DataTok("finalize", 990, 0, 0))
CompleteFrame(finishedAt, elapsed) ==
  sseLine("complete", DataTok("", finishedAt, elapsed, 0))

\* the chunks an upstream event stream can arrive in: event e whole, or
\* cut inside its data line
WholeChunk(e) == <<UpTok(e, 1), UpTok(e, 2), NL, NL>>
HeadChunk(e) == <<UpTok(e, 1)>>
TailChunk(e) == <<UpTok(e, 2), NL, NL>>

----------------------------------------------------------------------------
(* Configuration *)

Unset == [set |-> FALSE, n |-> 0]
Val(n) == [set |-> TRUE, n |-> n]

parseNumber(v, fallback) == IF v.set THEN v.n ELSE fallback

TOTAL == parseNumber(env.PROGRESS_TOTAL_P50_MS, TOTAL_DEFAULT_MS)
TailMaxNoCap == Max(Frac(9, 10), parseNumber(env.PROGRESS_TAIL_MAX, Frac(99, 100)))
TAIL_MAX ==
  Max(Frac(9, 10), Min(Frac(999, 1000), parseNumber(env.PROGRESS_TAIL_MAX, Frac(99, 100))))
HEARTBEAT_MS ==
  Max(HEARTBEAT_MIN_MS, parseNumber(env.STREAM_HEARTBEAT_MS, HEARTBEAT_DEFAULT_MS))

----------------------------------------------------------------------------
(* Values.  A JSON value or a form entry is a record: t is its JavaScript  *)
(* type, s its text (a string, or "true"/"false" of a boolean), a the      *)
(* entries of an array.  A string whose text is the JSON of an array       *)
(* carries that array in a.                                                *)

JValue(t, s, a) == [t |-> t, s |-> s, a |-> a]
Undefined == JValue("undefined", "", <<>>)
Null == JValue("null", "", <<>>)
Str(s) == JValue("string", s, <<>>)
Bool(b) == JValue("boolean", IF b THEN "true" ELSE "false", <<>>)
Arr(a) == JValue("array", "", a)
Obj(s) == JValue("object", s, <<>>)
\* a string that is the JSON text of the array a
StrJson(a) == JValue("string", "[..]", a)
\* an uploaded File with the declared content type
File(type) == JValue("file", type, <<>>)

\* JavaScript truthiness: !!v
Truthy(v) ==
  CASE v.t \in {"undefined", "null"} -> FALSE
    [] v.t = "boolean" -> v.s = "true"
    [] v.t = "string" -> v.s # ""
    [] OTHER -> TRUE

toLowerCase(s) ==
  CASE s \in {"TRUE", "True"} -> "true"
    [] s \in {"FALSE", "False"} -> "false"
    [] OTHER -> s

\* String.prototype.trim, on the strings with outer blanks the model uses
trim(s) ==
  CASE s \in {" ", "  "} -> ""
    [] s = " m1 " -> "m1"
    [] s = " m0 " -> "m0"
    [] OTHER -> s

\* an object whose `type` property has the given typeof and text
TypeObj(typeof, s) == JValue("object", s, <<typeof>>)

----------------------------------------------------------------------------
(* The environments the model draws from *)

\* nothing configured
DefaultEnv ==
  [PROGRESS_TOTAL_P50_MS |-> Unset, PROGRESS_TAIL_MAX |-> Unset,
   STREAM_HEARTBEAT_MS |-> Unset, DEFAULT_MODEL |-> Undefined,
   ADMIN_TOKEN |-> Undefined, REQUIRE_READ_AUTH |-> Undefined,
   READ_BEARER_TOKEN |-> Undefined, WRITE_RL_LIMIT |-> Undefined,
   ENABLE_NONCE_REQUIRED_FOR_WRITE |-> Undefined]
\* all defaults; both values below their floor; the tail above its cap
EnvSet ==
  {[DefaultEnv EXCEPT !.STREAM_HEARTBEAT_MS = Val(1000)],
   [DefaultEnv EXCEPT !.PROGRESS_TOTAL_P50_MS = Val(1000),
                      !.PROGRESS_TAIL_MAX = Val(Frac(1, 2)),
                      !.STREAM_HEARTBEAT_MS = Val(1000)],
   [DefaultEnv EXCEPT !.PROGRESS_TOTAL_P50_MS = Val(1000),
                      !.PROGRESS_TAIL_MAX = Val(Scale),
                      !.STREAM_HEARTBEAT_MS = Val(1000)]}

StatusSet == {200, 429}
TightEnv ==
  [DefaultEnv EXCEPT !.PROGRESS_TOTAL_P50_MS = Val(1000),
                     !.PROGRESS_TAIL_MAX = Val(Scale),
                     !.STREAM_HEARTBEAT_MS = Val(1000)]

----------------------------------------------------------------------------
(* The inbound request of the vision route *)

\* the fields of a body the route reads
NoFields ==
  [provider |-> Undefined, stream |-> Undefined, prompt |-> Undefined,
   image_url |-> Undefined, image_base64 |-> Undefined, images |-> Undefined,
   file |-> Undefined, model |-> Undefined, thinking |-> Undefined,
   detail |-> Undefined]

\* a request body: a JSON object, the JSON literal null, a multipart form,
\* or bytes that are neither
JsonBody(fields) == [kind |-> "json", fields |-> fields]
NullBody == [kind |-> "json_null", fields |-> NoFields]
FormBody(fields) == [kind |-> "form", fields |-> fields]
GarbageBody == [kind |-> "garbage", fields |-> NoFields]

\* query is the `stream` parameter of the URL, qprovider its `provider`
\* parameter
Request(path, query, ctype, body) ==
  [path |-> path, query |-> query, qprovider |-> Undefined, ctype |-> ctype,
   body |-> body]

\* url.searchParams.get(name) is null or a string
getQueryFlag(v) ==
  IF v.t = "undefined" THEN Undefined
  ELSE IF v.s = "" \/ v.s = "1" \/ toLowerCase(v.s) = "true" THEN Bool(TRUE)
  ELSE IF v.s = "0" \/ toLowerCase(v.s) = "false" THEN Bool(FALSE)
  ELSE Undefined

pickProviderDefaultsOpenRouter(provider) ==
  IF provider = Str("bigmodel") THEN "bigmodel" ELSE "openrouter"
pickProvider(provider) ==
  IF ~Truthy(provider) THEN "bigmodel"
  ELSE IF provider = Str("openrouter") THEN "openrouter" ELSE "bigmodel"

defaultModelIgnoresEnv(e, provider) ==
  IF provider = "openrouter" THEN "qwen/qwen2.5-vl-72b-instruct" ELSE "glm-4.5v"
defaultModelFor(e, provider) ==
  IF Truthy(e.DEFAULT_MODEL) /\ trim(e.DEFAULT_MODEL.s) # ""
  THEN trim(e.DEFAULT_MODEL.s)
  ELSE IF provider = "openrouter" THEN "qwen/qwen2.5-vl-72b-instruct" ELSE "glm-4.5v"

\* JSON.parse of a form field, the string kept when it throws
JSONparse(v) == IF v.s = "[..]" THEN Arr(v.a) ELSE v

\* the string entries of the form, then "normalize types"
FormFields(fields) ==
  LET strs == [k \in DOMAIN fields |->
                IF fields[k].t = "string" THEN fields[k] ELSE Undefined]
      strm == IF strs.stream.t # "undefined"
              THEN Bool(toLowerCase(strs.stream.s) # "false")
              ELSE strs.stream
      imgs == IF Truthy(strs.images) /\ strs.images.t = "string"
              THEN JSONparse(strs.images)
              ELSE strs.images
  IN [strs EXCEPT !.stream = strm, !.images = imgs]

\* parseAnalyzePayload: threw is TRUE when the promise rejects, input is
\* the AnalyzeInput otherwise (Null for the JSON literal null)
parseAnalyzePayload(r) ==
  IF r.ctype = "application/json"
  THEN CASE r.body.kind = "json" -> [threw |-> FALSE, input |-> Obj("input"), fields |-> r.body.fields]
         [] r.body.kind = "json_null" -> [threw |-> FALSE, input |-> Null, fields |-> NoFields]
         [] OTHER -> [threw |-> TRUE, input |-> Undefined, fields |-> NoFields]
  ELSE IF r.ctype = "multipart/form-data"
  THEN IF r.body.kind = "form"
       THEN [threw |-> FALSE, input |-> Obj("input"), fields |-> FormFields(r.body.fields)]
       ELSE [threw |-> TRUE, input |-> Undefined, fields |-> NoFields]
  ELSE CASE r.body.kind = "json" -> [threw |-> FALSE, input |-> Obj("input"), fields |-> r.body.fields]
         [] r.body.kind = "json_null" -> [threw |-> FALSE, input |-> Null, fields |-> NoFields]
         [] OTHER -> [threw |-> FALSE, input |-> Obj("input"), fields |-> NoFields]

\* an image of the payload: a plain URL, or a data URI with its media type
Url(s) == [scheme |-> "url", mime |-> "", s |-> s]
DataUrl(mime, b64) == [scheme |-> "data", mime |-> mime, s |-> b64]
\* a content part; detail is image_url.detail, Undefined when the key is
\* absent
TextPart(text) == [type |-> "text", text |-> text, url |-> Url(""), detail |-> Undefined]
ImagePart(url) == [type |-> "image_url", text |-> "", url |-> url, detail |-> Undefined]

RECURSIVE Urls(_)
Urls(a) == IF a = <<>> THEN <<>> ELSE <<Url(Head(a))>> \o Urls(Tail(a))
RECURSIVE ImagePartsReversed(_)
ImagePartsReversed(imgs) ==
  IF imgs = <<>> THEN <<>>
  ELSE ImagePartsReversed(Tail(imgs)) \o <<ImagePart(Head(imgs))>>
RECURSIVE ImageParts(_)
ImageParts(imgs) ==
  IF imgs = <<>> THEN <<>>
  ELSE <<ImagePart(Head(imgs))>> \o ImageParts(Tail(imgs))

\* lines 378-381: the images of the request, in the order they are sent
images(input) ==
  (IF Truthy(input.image_url) THEN <<Url(input.image_url.s)>> ELSE <<>>)
  \o (IF Truthy(input.image_base64)
      THEN <<DataUrl("image/png", input.image_base64.s)>> ELSE <<>>)
  \o (IF input.images.t = "array" THEN Urls(input.images.a) ELSE <<>>)

\* lines 390-398: payload.thinking, Undefined when the key is not added
thinking(input, provider) ==
  LET t == input.thinking
  IN IF provider # "bigmodel" THEN Undefined
     ELSE IF t = Str("enabled") \/ t = Str("disabled") THEN TypeObj("string", t.s)
     ELSE IF Truthy(t) /\ t.t = "object" /\ t.a = <<"string">>
          THEN TypeObj("string", t.s)
     ELSE Undefined

\* buildVisionPayload: model, messages[0].content and thinking of the
\* payload
buildVisionPayload(input, provider, e) ==
  LET model == IF input.model.t = "string" /\ trim(input.model.s) # ""
               THEN trim(input.model.s)
               ELSE defaultModelFor(e, provider)
      text == IF Truthy(input.prompt) THEN <<TextPart(input.prompt.s)>> ELSE <<>>
  IN [model |-> model, content |-> text \o ImageParts(images(input)),
      thinking |-> thinking(input, provider)]

\* streamFlag of fetch
wantsStream(r, input) ==
  \/ r.path = "/v1/vision/stream"
  \/ Truthy(input.stream)
  \/ getQueryFlag(r.query) = Bool(TRUE)

UpstreamCallStreamDefault(provider, payload, stream) ==
  [provider |-> provider, payload |-> payload, stream |-> FALSE]
\* callOpenRouter / callBigModel: the request that goes to the provider
UpstreamCall(provider, payload, stream) ==
  [provider |-> provider, payload |-> payload, stream |-> stream]

\* line 631 or 632 throws: the body does not parse, or it is null
Throws(r) == parseAnalyzePayload(r).threw \/ parseAnalyzePayload(r).input = Null

----------------------------------------------------------------------------
(* The requests the model draws from *)

WithImage == [NoFields EXCEPT !.image_url = Str("u1")]

\* the requests of the stream sessions: JSON for each provider, with and
\* without a stream, and a body that does not parse
SessionRequests ==
  {Request("/v1/vision/analyze", Undefined, "application/json", JsonBody(WithImage)),
   Request("/v1/vision/analyze", Undefined, "application/json",
           JsonBody([WithImage EXCEPT !.provider = Str("openrouter")])),
   Request("/v1/vision/analyze", Undefined, "application/json",
           JsonBody([WithImage EXCEPT !.stream = Bool(TRUE)])),
   Request("/v1/vision/stream", Undefined, "application/json",
           JsonBody([WithImage EXCEPT !.provider = Str("openrouter")])),
   Request("/v1/vision/analyze", Undefined, "application/json", GarbageBody)}

\* one request of each outcome of the handler
JitterRequests ==
  {Request("/v1/vision/analyze", Undefined, "application/json", JsonBody(WithImage)),
   Request("/v1/vision/stream", Undefined, "application/json", JsonBody(WithImage)),
   Request("/v1/vision/analyze", Undefined, "application/json", GarbageBody)}

Paths == {"/v1/vision/analyze", "/v1/vision/stream"}
Queries == {Undefined, Str(""), Str("1"), Str("TRUE"), Str("0"), Str("False"), Str("yes")}
ContentTypes == {"application/json", "multipart/form-data", "text/plain"}

Providers == {Undefined, Str("openrouter"), Str("bigmodel"), Str("azure")}
ImageSets ==
  {[image_url |-> Undefined, image_base64 |-> Undefined, images |-> Undefined],
   [image_url |-> Str("u1"), image_base64 |-> Undefined, images |-> Undefined],
   [image_url |-> Undefined, image_base64 |-> Str("b1"), images |-> Undefined],
   [image_url |-> Undefined, image_base64 |-> Undefined, images |-> Arr(<<"u2", "u3">>)],
   [image_url |-> Str("u1"), image_base64 |-> Str("b1"), images |-> Arr(<<"u2">>)]}

JsonBodies ==
  {JsonBody([NoFields EXCEPT !.provider = p, !.stream = st, !.prompt = pr,
                             !.image_url = im.image_url,
                             !.image_base64 = im.image_base64,
                             !.images = im.images]) :
     p \in Providers, st \in {Undefined, Bool(TRUE), Bool(FALSE)},
     pr \in {Undefined, Str("describe")}, im \in ImageSets}

FormImages == {Undefined, StrJson(<<"u2", "u3">>), Str("u2,u3")}
Files == {Undefined, File("image/png"), File("image/bmp")}
FormBodies ==
  {FormBody([NoFields EXCEPT !.provider = p, !.stream = st, !.image_url = u,
                             !.images = im, !.file = f]) :
     p \in {Undefined, Str("openrouter")},
     st \in {Undefined, Str("true"), Str("false"), Str("FALSE"), Str("")},
     u \in {Undefined, Str("u1")}, im \in FormImages, f \in Files}

RequestSet ==
  {Request(p, q, c, b) :
     p \in Paths, q \in Queries, c \in ContentTypes,
     b \in JsonBodies \cup FormBodies \cup {NullBody, GarbageBody}}

\* the requests whose payload is examined: every combination of the fields
\* buildVisionPayload reads, with and without a provider in the query, and
\* one request of each other outcome of the handler
Models == {Undefined, Str("  "), Str(" m1 "), Str("qwen/qwen2.5-vl-72b-instruct")}
Prompts == {Undefined, Str(""), Str("describe")}
Thinkings ==
  {Undefined, Str("enabled"), Str("disabled"), Str("auto"),
   TypeObj("string", "disabled"), TypeObj("string", "banana"),
   TypeObj("number", "")}
Details == {Undefined, Str("low"), Str("auto")}
PayloadImages ==
  {[image_url |-> Undefined, image_base64 |-> Undefined, images |-> Undefined],
   [image_url |-> Str("u1"), image_base64 |-> Undefined, images |-> Undefined],
   [image_url |-> Undefined, image_base64 |-> Undefined, images |-> Arr(<<"u2", "u2">>)],
   [image_url |-> Str("u1"), image_base64 |-> Str("b1"), images |-> Arr(<<"u3", "u2">>)]}
PayloadBodies ==
  {JsonBody([NoFields EXCEPT !.provider = p, !.model = m, !.prompt = pr,
                             !.image_url = im.image_url,
                             !.image_base64 = im.image_base64,
                             !.images = im.images, !.thinking = th,
                             !.detail = d]) :
     p \in Providers, m \in Models, pr \in Prompts, im \in PayloadImages,
     th \in Thinkings, d \in Details}
PayloadRequests ==
  {[Request("/v1/vision/analyze", Undefined, "application/json", b)
      EXCEPT !.qprovider = q] :
     b \in PayloadBodies, q \in {Undefined, Str("openrouter")}}
  \cup {Request("/v1/vision/stream", Undefined, "application/json", JsonBody(WithImage)),
        Request("/v1/vision/analyze", Undefined, "application/json", GarbageBody)}
\* DEFAULT_MODEL unset, blank, and set
PayloadEnvs ==
  {[DefaultEnv EXCEPT !.DEFAULT_MODEL = m] : m \in {Undefined, Str("  "), Str(" m0 ")}}

----------------------------------------------------------------------------
(* State after the request has arrived at fetch *)

InitWith(envs, reqs, late) ==
  /\ env \in envs
  /\ req \in reqs
  /\ sent = <<>>
  /\ streamFlag = FALSE
  /\ pc = "handler"
  /\ upCalls = 0
  /\ upstream = "none"
  /\ up = [status |-> 0, body |-> FALSE, text |-> "none"]
  /\ upRead = <<>>
  /\ upEnd = "no"
  /\ transport = "none"
  /\ out = <<>>
  /\ resp = [kind |-> "none", status |-> 0, body |-> Undefined]
  /\ started = 0
  /\ progress = 0
  /\ lastEmit = 0
  /\ hbArmed = FALSE
  /\ softArmed = FALSE
  /\ hbDue = 0
  /\ softDue = 0
  /\ lateLeft = late
  /\ now = StartedMs
  /\ db = <<>>
  /\ inflight = {}
  /\ writes = 0
  /\ reply = [op |-> "none", status |-> 0, code |-> "", data |-> <<>>]
  /\ kv = <<>>
  /\ reads = 0

\* the scheduler runs every interval callback on time
Init == InitWith(EnvSet, SessionRequests, 0)
\* the scheduler may delay interval callbacks
InitJitter == InitWith({TightEnv}, JitterRequests, MaxLateRuns)
\* every request, up to the response the handler returns
InitDispatch == InitWith({DefaultEnv}, RequestSet, 0)
\* the payload of every request, under every DEFAULT_MODEL
InitPayload == InitWith(PayloadEnvs, PayloadRequests, 0)

timerVars == <<hbArmed, softArmed, hbDue, softDue, lateLeft>>
sessionVars == <<started, progress, lastEmit>>

\* controller.enqueue and controller.close throw a TypeError unless the
\* stream is still readable
Writable == transport = "open"

----------------------------------------------------------------------------
(* fetch, route /v1/vision/analyze and /v1/vision/stream *)

\* lines 631-638: the body is parsed, the provider picked, streamFlag
\* computed, the payload built, and the one upstream call issued:
\* callOpenRouter / callBigModel run up to their fetch() and hand back the
\* pending promise
Dispatch ==
  /\ pc = "handler"
  /\ ~Throws(req)
  /\ LET input == parseAnalyzePayload(req).fields
         provider == pickProvider(input.provider)
         flag == wantsStream(req, input)
     IN /\ streamFlag' = flag
        /\ sent' = Append(sent, UpstreamCall(provider, buildVisionPayload(input, provider, env), flag))
        /\ pc' = IF flag THEN "wrap" ELSE "await_json"
  /\ upCalls' = upCalls + 1
  /\ upstream' = "pending"
  /\ UNCHANGED <<promptVars, env, req, up, upRead, upEnd, transport, out, resp, sessionVars,
                 timerVars, now>>

\* the body as an error response: errorResponse(.., status 400)
BadRequest == [kind |-> "error", status |-> 400, body |-> Obj("BAD_REQUEST")]

\* lines 631-632 throw: the catch block answers 400 BAD_REQUEST
RejectRequest ==
  /\ pc = "handler"
  /\ Throws(req)
  /\ resp' = BadRequest
  /\ pc' = "done"
  /\ UNCHANGED <<promptVars, env, req, sent, streamFlag, upCalls, upstream, up, upRead, upEnd,
                 transport, out, sessionVars, timerVars, now>>

EarlyFramesSwapped == <<SelectingFrame, QueuedFrame>>
\* the two frames start() enqueues before its first await
EarlyFrames == <<QueuedFrame, SelectingFrame>>

\* progressWrappedSSE up to the first await of start(), and the Response
\* it returns
StartStream ==
  /\ pc = "wrap"
  /\ started' = now
  /\ progress' = 0
  /\ lastEmit' = 0
  /\ transport' = "open"
  /\ out' = out \o EarlyFrames
  /\ resp' = [kind |-> "stream", status |-> 200, body |-> Obj("stream")]
  /\ pc' = "await_upstream"
  /\ UNCHANGED <<promptVars, env, req, sent, streamFlag, upCalls, upstream, up, upRead, upEnd, timerVars, now>>

\* upstream.json().catch(() => null)
UpstreamJson(r) == IF r.text \in {"object", "null"} THEN JValue(r.text, "upstream", <<>>) ELSE Null
\* json ?? { error: "bad upstream json" }
JsonOrError(json) == IF json.t \in {"null", "undefined"} THEN Obj("bad upstream json") ELSE json

NonStreamRetriesOn429 ==
  /\ pc = "await_json"
  /\ upstream \in {"resolved", "rejected"}
  /\ IF upstream = "resolved" /\ up.status = 429 /\ upCalls < 2
     THEN /\ sent' = sent \o sent
          /\ upCalls' = upCalls + 1
          /\ upstream' = "pending"
          /\ UNCHANGED <<resp, pc>>
     ELSE /\ resp' = IF upstream = "resolved"
                     THEN [kind |-> "json", status |-> up.status,
                           body |-> JsonOrError(UpstreamJson(up))]
                     ELSE BadRequest
          /\ pc' = "done"
          /\ UNCHANGED <<sent, upCalls, upstream>>
  /\ UNCHANGED <<promptVars, env, req, streamFlag, up, upRead, upEnd, transport, out,
                 sessionVars, timerVars, now>>
\* the non-streaming branch: await the upstream and answer with its status;
\* a rejected upstream call is caught and answered 400 BAD_REQUEST
NonStreamRespond ==
  /\ pc = "await_json"
  /\ upstream \in {"resolved", "rejected"}
  /\ resp' = IF upstream = "resolved"
             THEN [kind |-> "json", status |-> up.status,
                   body |-> JsonOrError(UpstreamJson(up))]
             ELSE BadRequest
  /\ pc' = "done"
  /\ UNCHANGED <<promptVars, env, req, sent, streamFlag, upCalls, upstream, up, upRead, upEnd,
                 transport, out, sessionVars, timerVars, now>>

----------------------------------------------------------------------------
(* The environment: the upstream provider, the client, the clock *)

Suspended == pc \in {"await_upstream", "reading", "await_json"}
Active == now <= StartedMs + MaxActiveSteps * SOFT_TICK_MS

\* what the provider answers with: no body, an event stream, or for a
\* request that did not ask for a stream the JSON text of an object, the
\* JSON text null, or bytes that are not JSON
UpstreamBodies ==
  IF streamFlag THEN {"none", "sse"} ELSE {"none", "object", "null", "invalid"}

UpstreamResolves ==
  /\ upstream = "pending"
  /\ Suspended
  /\ \E st \in StatusSet, b \in UpstreamBodies :
       up' = [status |-> st, body |-> b # "none", text |-> b]
  /\ upstream' = "resolved"
  /\ UNCHANGED <<promptVars, env, req, sent, streamFlag, pc, upCalls, upRead, upEnd, transport, out, resp,
                 sessionVars, timerVars, now>>

UpstreamRejects ==
  /\ upstream = "pending"
  /\ Suspended
  /\ upstream' = "rejected"
  /\ UNCHANGED <<promptVars, env, req, sent, streamFlag, pc, upCalls, up, upRead, upEnd, transport, out, resp,
                 sessionVars, timerVars, now>>

\* the client goes away: the runtime cancels the ReadableStream.  The
\* underlying source has no cancel() method, so no code of the worker runs
ClientCancel ==
  /\ transport = "open"
  /\ Suspended
  /\ Active
  /\ transport' = "cancelled"
  /\ UNCHANGED <<promptVars, env, req, sent, streamFlag, pc, upCalls, upstream, up, upRead, upEnd, out, resp,
                 sessionVars, timerVars, now>>

\* the intervals that are due and have not run yet
Overdue == {t \in {"hb", "soft"} :
              \/ t = "hb" /\ hbArmed /\ now >= hbDue
              \/ t = "soft" /\ softArmed /\ now >= softDue}
\* an interval is due at clock value t
DueAt(t) == (hbArmed /\ hbDue = t) \/ (softArmed /\ softDue = t)

OnGrid == (now - StartedMs) % SOFT_TICK_MS = 0

\* the clock moves on to the next instant at which something can run.
\* From a multiple of SOFT_TICK_MS it moves to the next multiple once every
\* due interval has run; or it moves LateMs on, with the due intervals
\* delayed until then, or because an interval is due then.  From there it
\* moves to the next multiple once every due interval has run
Advance ==
  /\ Suspended \/ hbArmed \/ softArmed
  /\ now < StartedMs + MaxSteps * SOFT_TICK_MS
  /\ \/ /\ OnGrid
        /\ Overdue = {}
        /\ ~DueAt(now + LateMs)
        /\ now' = now + SOFT_TICK_MS
        /\ UNCHANGED lateLeft
     \/ /\ OnGrid
        /\ Overdue = {}
        /\ DueAt(now + LateMs)
        /\ now' = now + LateMs
        /\ UNCHANGED lateLeft
     \/ /\ OnGrid
        /\ Overdue # {}
        /\ lateLeft > 0
        /\ Active
        /\ now' = now + LateMs
        /\ lateLeft' = lateLeft - 1
     \/ /\ ~OnGrid
        /\ Overdue = {}
        /\ now' = now + (SOFT_TICK_MS - LateMs)
        /\ UNCHANGED lateLeft
  /\ UNCHANGED <<promptVars, env, req, sent, streamFlag, pc, upCalls, upstream, up, upRead, upEnd,
                 transport, out, resp, sessionVars, hbArmed, softArmed, hbDue,
                 softDue>>

----------------------------------------------------------------------------
(* start(controller) of the ReadableStream, after its first await *)

\* upstreamPromise rejected: start() rejects and the stream is errored
StreamUpstreamFailed ==
  /\ pc = "await_upstream"
  /\ upstream = "rejected"
  /\ pc' = "threw"
  /\ transport' = IF Writable THEN "errored" ELSE transport
  /\ UNCHANGED <<promptVars, env, req, sent, streamFlag, upCalls, upstream, up, upRead, upEnd, out, resp,
                 sessionVars, timerVars, now>>

\* headers -> jump to ~35%
HeadersFloor == Frac(35, 100)

\* from the resolution of upstreamPromise to the first reader.read():
\* the headers_received frame, both intervals set, the check of up.body
HeadersReceived ==
  /\ pc = "await_upstream"
  /\ upstream = "resolved"
  /\ progress' = Max(progress, HeadersFloor)
  /\ IF ~Writable
     THEN \* enqueue throws: start() rejects before any timer is set
          /\ pc' = "threw"
          /\ UNCHANGED <<out, transport, timerVars>>
     ELSE IF ~up.body
     THEN /\ out' = out \o <<HeadersFrame(progress', now - started, up.status),
                            NoBodyFrame>>
          /\ transport' = "closed"
          /\ pc' = "done"
          /\ UNCHANGED timerVars
     ELSE /\ out' = Append(out, HeadersFrame(progress', now - started, up.status))
          /\ hbArmed' = TRUE
          /\ softArmed' = TRUE
          /\ hbDue' = now + HEARTBEAT_MS
          /\ softDue' = now + SOFT_TICK_MS
          /\ pc' = "reading"
          /\ UNCHANGED <<transport, lateLeft>>
  /\ UNCHANGED <<promptVars, env, req, sent, streamFlag, upCalls, upstream, up, upRead, upEnd, resp, started,
                 lastEmit, now>>

\* when an interval that ran at clock value t, due at d, is due next: the
\* schedule is kept, or restarts from the late run
NextDue(d, t, period) == {d + period, t + period}

\* the heartbeat callback
Heartbeat ==
  /\ hbArmed
  /\ now >= hbDue
  /\ out' = IF Writable THEN Append(out, HeartbeatFrame(now)) ELSE out
  /\ hbDue' \in NextDue(hbDue, now, HEARTBEAT_MS)
  /\ UNCHANGED <<promptVars, env, req, sent, streamFlag, pc, upCalls, upstream, up, upRead, upEnd, transport,
                 resp, sessionVars, hbArmed, softArmed, softDue, lateLeft, now>>

\* softTicker: target = Math.min(TAIL_MAX, elapsed / est)
SoftTarget(elapsed) == Min(TAIL_MAX, (elapsed * Scale) \div Max(TOTAL, EST_MIN_MS))
SoftThreshold == Frac(2, 100)
SoftGrows(target) == target > progress + SoftThreshold /\ target <= TAIL_MAX
SoftThrottleAlwaysOpen == TRUE
SoftThrottleOpen == now - lastEmit > THROTTLE_MS

\* the soft-progress callback
SoftTick ==
  /\ softArmed
  /\ now >= softDue
  /\ LET target == SoftTarget(now - started) IN
       IF SoftGrows(target)
       THEN /\ progress' = target
            /\ IF SoftThrottleOpen
               THEN /\ lastEmit' = now
                    /\ out' = IF Writable THEN Append(out, WaitFrame(target)) ELSE out
               ELSE UNCHANGED <<lastEmit, out>>
       ELSE UNCHANGED <<progress, lastEmit, out>>
  /\ softDue' \in NextDue(softDue, now, SOFT_TICK_MS)
  /\ UNCHANGED <<promptVars, env, req, sent, streamFlag, pc, upCalls, upstream, up, upRead, upEnd, transport,
                 resp, started, hbArmed, softArmed, hbDue, lateLeft, now>>

\* the upstream events begun so far, and whether the last one is cut
EventsBegun == Cardinality({i \in DOMAIN upRead : upRead[i][1].m = 1})
MidEvent == upRead # <<>> /\ upRead[Len(upRead)] = HeadChunk(EventsBegun)
NextChunks ==
  IF MidEvent THEN {TailChunk(EventsBegun)}
  ELSE {WholeChunk(EventsBegun + 1), HeadChunk(EventsBegun + 1)}

RelayChunkSkipsShort(sofar, value) ==
  IF Len(value) > 1 THEN Append(sofar, value) ELSE sofar
\* if (value) controller.enqueue(value): a Uint8Array is always truthy
RelayChunk(sofar, value) == Append(sofar, value)

\* reader.read() returns a chunk: controller.enqueue(value).  On a stream
\* that is gone enqueue throws, the catch block's enqueue throws again and
\* start() rejects with both intervals still set
ReadChunk ==
  /\ pc = "reading"
  /\ Len(upRead) < MaxChunks
  /\ Active
  /\ \E c \in NextChunks :
       /\ upRead' = Append(upRead, c)
       /\ IF Writable
          THEN out' = RelayChunk(out, c) /\ pc' = pc
          ELSE out' = out /\ pc' = "threw"
  /\ UNCHANGED <<promptVars, env, req, sent, streamFlag, upCalls, upstream, up, upEnd, transport, resp,
                 sessionVars, timerVars, now>>

TailFramesSwapped == <<CompleteFrame(now, now - started), FinalizeFrame>>
\* Finish with our tail & complete
TailFrames == <<FinalizeFrame, CompleteFrame(now, now - started)>>
CatchFramesSilent == <<>>
\* what the catch block of pushDone enqueues
CatchFrames == <<ReadErrorFrame>>

FinishKeepsHeartbeat(sofar) ==
  /\ hbArmed' = hbArmed
  /\ softArmed' = FALSE
  /\ progress' = Scale
  /\ IF Writable
     THEN out' = sofar \o TailFrames /\ transport' = "closed" /\ pc' = "done"
     ELSE out' = sofar /\ transport' = transport /\ pc' = "threw"
  /\ UNCHANGED <<hbDue, softDue, lateLeft>>

\* what runs after pushDone() has returned: both intervals cleared, the
\* tail frames, controller.close()
Finish(sofar) ==
  /\ hbArmed' = FALSE
  /\ softArmed' = FALSE
  /\ progress' = Scale
  /\ IF Writable
     THEN out' = sofar \o TailFrames /\ transport' = "closed" /\ pc' = "done"
     ELSE out' = sofar /\ transport' = transport /\ pc' = "threw"
  /\ UNCHANGED <<hbDue, softDue, lateLeft>>

\* reader.read() returns done
ReadDone ==
  /\ pc = "reading"
  /\ upEnd' = "done"
  /\ Finish(out)
  /\ UNCHANGED <<promptVars, env, req, sent, streamFlag, upCalls, upstream, up, upRead, resp, started,
                 lastEmit, now>>

\* reader.read() rejects: the catch block enqueues the error frame and
\* pushDone returns normally
ReadFault ==
  /\ pc = "reading"
  /\ IF Writable
     THEN Finish(out \o CatchFrames)
     ELSE /\ pc' = "threw"
          /\ UNCHANGED <<out, transport, progress, timerVars>>
  /\ upEnd' = "fault"
  /\ UNCHANGED <<promptVars, env, req, sent, streamFlag, upCalls, upstream, up, upRead, resp, started,
                 lastEmit, now>>

----------------------------------------------------------------------------

Next ==
  \/ Dispatch
  \/ RejectRequest
  \/ StartStream
  \/ NonStreamRespond
  \/ UpstreamResolves
  \/ UpstreamRejects
  \/ ClientCancel
  \/ Advance
  \/ StreamUpstreamFailed
  \/ HeadersReceived
  \/ Heartbeat
  \/ SoftTick
  \/ ReadChunk
  \/ ReadDone
  \/ ReadFault

Spec == Init /\ [][Next]_vars
SpecJitter == InitJitter /\ [][Next]_vars

\* the handler up to the response it returns and the upstream's headers
NextDispatch ==
  \/ Dispatch
  \/ RejectRequest
  \/ StartStream
  \/ NonStreamRespond
  \/ UpstreamResolves
  \/ UpstreamRejects
  \/ StreamUpstreamFailed
  \/ HeadersReceived

SpecDispatch == InitDispatch /\ [][NextDispatch]_vars
SpecPayload == InitPayload /\ [][NextDispatch]_vars

----------------------------------------------------------------------------
(* What a client sees on the outbound stream *)

\* an enqueued item that is one of the worker's own frames
FrameIs(item, type, phase) ==
  /\ Len(item) = 5
  /\ item[1].k = "event" /\ item[1].s = type
  /\ item[3].k = "data" /\ item[3].s = phase
IsProgress(item, phase) == FrameIs(item, "progress", phase)
IsHeartbeat(item) == FrameIs(item, "heartbeat", "")
IsWait(item) == IsProgress(item, "upstream_wait")
IsError(item) == \E c \in {"NO_UPSTREAM_BODY", "UPSTREAM_READ"} : FrameIs(item, "error", c)
IsComplete(item) == FrameIs(item, "complete", "")
IsFinalize(item) == IsProgress(item, "finalize")
\* an enqueued item that carries the upstream's bytes
IsUpstream(item) == item # <<>> /\ \A i \in DOMAIN item : item[i].k \in {"up", "nl"}
PercentOf(item) == item[3].n

Count(seq, P(_)) == Cardinality({i \in DOMAIN seq : P(seq[i])})
UpstreamItems(seq) == SelectSeq(seq, IsUpstream)

RECURSIVE Flatten(_)
Flatten(items) == IF items = <<>> THEN <<>> ELSE Head(items) \o Flatten(Tail(items))

\* text/event-stream parsing: lines end at a line feed, an unfinished last
\* line is not processed
RECURSIVE SplitLines(_, _, _)
SplitLines(bytes, cur, acc) ==
  IF bytes = <<>> THEN acc
  ELSE IF Head(bytes).k = "nl"
       THEN SplitLines(Tail(bytes), <<>>, Append(acc, cur))
       ELSE SplitLines(Tail(bytes), Append(cur, Head(bytes)), acc)

\* the field a line sets: its bytes up to the first colon
FieldOf(line) ==
  IF line[1].k = "event" THEN "event"
  ELSE IF line[1].k = "data" \/ (line[1].k = "up" /\ line[1].m = 1) THEN "data"
  ELSE "other"

\* an empty line dispatches the event built so far if it has data; type
\* <<>> is the default type "message"
RECURSIVE BuildEvents(_, _, _, _)
BuildEvents(lines, type, data, acc) ==
  IF lines = <<>> THEN acc
  ELSE LET l == Head(lines) IN
    IF l = <<>>
    THEN BuildEvents(Tail(lines), <<>>, <<>>,
                     IF data = <<>> THEN acc
                     ELSE Append(acc, [type |-> type, data |-> data]))
    ELSE IF FieldOf(l) = "event" THEN BuildEvents(Tail(lines), l, data, acc)
    ELSE IF FieldOf(l) = "data" THEN BuildEvents(Tail(lines), type, Append(data, l), acc)
    ELSE BuildEvents(Tail(lines), type, data, acc)

ParseSSE(bytes) == BuildEvents(SplitLines(bytes, <<>>, <<>>), <<>>, <<>>, <<>>)
IsMessage(ev) == ev.type = <<>>
\* the provider's events as the client parses them out of the response
ClientUpstreamEvents == SelectSeq(ParseSSE(Flatten(out)), IsMessage)
\* the provider's events as they are in the bytes the provider sent
ProviderEvents == ParseSSE(Flatten(upRead))

Streaming == streamFlag /\ transport # "none"

----------------------------------------------------------------------------
(* The stream synthesizer's frame order *)

\* C1: for every streaming request the first two items on the outbound
\* stream are the queued frame (5%) and then the selecting_provider frame
\* (10%); nothing precedes them, and the upstream's answer, early or late,
\* is never taken up before they are written
C1_EarlyFramesFirst ==
  /\ Streaming =>
       /\ Len(out) >= 2
       /\ IsProgress(out[1], "queued") /\ PercentOf(out[1]) = 50
       /\ IsProgress(out[2], "selecting_provider") /\ PercentOf(out[2]) = 100
  /\ (streamFlag /\ upstream \in {"resolved", "rejected"}) => Streaming

\* C1 witness: an upstream that answered with zero latency and has
\* already delivered a chunk
C1_Witness ==
  /\ Streaming /\ upstream = "resolved"
  /\ Len(out) >= 4 /\ out[3][3].m = 0
  /\ Len(upRead) >= 1

\* C2: when the upstream body ends naturally the stream is queued,
\* selecting_provider, one headers_received, then heartbeats, upstream_wait
\* frames and chunks, then one finalize, then one complete, then closed;
\* no heartbeat, upstream_wait frame or chunk precedes headers_received and
\* nothing follows complete
C2_NaturalEndOrder ==
  Streaming =>
    /\ \A i \in DOMAIN out :
         (IsHeartbeat(out[i]) \/ IsWait(out[i]) \/ IsUpstream(out[i]))
           => i > 3 /\ IsProgress(out[3], "headers_received")
    /\ \A i \in DOMAIN out : IsComplete(out[i]) => i = Len(out)
    /\ (upEnd = "done" /\ transport # "cancelled") =>
         /\ transport = "closed"
         /\ Len(out) >= 5
         /\ IsProgress(out[1], "queued")
         /\ IsProgress(out[2], "selecting_provider")
         /\ IsProgress(out[3], "headers_received")
         /\ \A i \in 4..(Len(out) - 2) :
              IsHeartbeat(out[i]) \/ IsWait(out[i]) \/ IsUpstream(out[i])
         /\ IsFinalize(out[Len(out) - 1]) /\ PercentOf(out[Len(out) - 1]) = 990
         /\ IsComplete(out[Len(out)])

\* C2 witness: a finished stream that carried a heartbeat, an
\* upstream_wait frame and a chunk
C2_Witness ==
  /\ upEnd = "done" /\ transport = "closed"
  /\ Count(out, IsHeartbeat) >= 1
  /\ Count(out, IsWait) >= 1
  /\ Count(out, IsUpstream) >= 1

\* C3: once an error frame is on the stream, no finalize and no complete
\* frame follows it
C3_NoCompleteAfterError ==
  \A i, j \in DOMAIN out :
    (i < j /\ IsError(out[i])) => ~IsComplete(out[j]) /\ ~IsFinalize(out[j])

C5_NoBodyErrors ==
  (Streaming /\ upstream = "resolved" /\ ~up.body /\ pc # "await_upstream"
     /\ transport # "cancelled") =>
    /\ pc = "done" /\ transport = "closed"
    /\ ~hbArmed /\ ~softArmed
    /\ Len(out) = 4
    /\ IsProgress(out[3], "headers_received")
    /\ FrameIs(out[4], "error", "NO_UPSTREAM_BODY")
    /\ \A i \in DOMAIN out :
         ~IsFinalize(out[i]) /\ ~IsComplete(out[i]) /\ ~IsUpstream(out[i])

\* C5 witness: the stream of a bodyless upstream response has ended
C5_Witness == Streaming /\ upstream = "resolved" /\ ~up.body /\ pc = "done"

C7_CancelFreesTimers ==
  transport = "cancelled" => ~hbArmed /\ ~softArmed /\ pc # "reading"

\* C8: the upstream call of a streaming request is issued only after the
\* queued and selecting_provider frames are written
C8_CallAfterEarlyFrames ==
  (streamFlag /\ upCalls > 0) =>
    /\ Len(out) >= 2
    /\ IsProgress(out[1], "queued")
    /\ IsProgress(out[2], "selecting_provider")

\* C9: the upstream chunks on the outbound stream are exactly the chunks
\* read from the upstream body, unchanged and in the order read
C9_Passthrough ==
  Streaming =>
    /\ transport # "cancelled" => UpstreamItems(out) = upRead
    /\ \E n \in 0..Len(upRead) : UpstreamItems(out) = SubSeq(upRead, 1, n)

\* C9 witness: a timer frame was written between two relayed chunks
C9_Witness ==
  /\ Len(upRead) = 2
  /\ \E i, j, k \in DOMAIN out :
       /\ i < j /\ j < k
       /\ IsUpstream(out[i]) /\ IsUpstream(out[k])
       /\ IsHeartbeat(out[j]) \/ IsWait(out[j])

\* C10: whenever the provider has sent whole events, the client parses out
\* of the response exactly those events, whatever the chunks they arrived in
\* and whenever the timers fired between the chunks
C10_FramingPreserved ==
  (Streaming /\ transport # "cancelled" /\ ~MidEvent)
    => ClientUpstreamEvents = ProviderEvents

----------------------------------------------------------------------------
(* The soft-progress estimator *)

\* the percent values of the frames of one phase, in stream order
RECURSIVE PercentsOf(_, _)
PercentsOf(seq, phase) ==
  IF seq = <<>> THEN <<>>
  ELSE (IF IsProgress(Head(seq), phase) THEN <<PercentOf(Head(seq))>> ELSE <<>>)
       \o PercentsOf(Tail(seq), phase)
WaitPercents == PercentsOf(out, "upstream_wait")
NonDecreasing(seq) == \A i \in 1..(Len(seq) - 1) : seq[i] <= seq[i + 1]

\* the ceiling as configured, and as the session applies it
ConfiguredTail == parseNumber(env.PROGRESS_TAIL_MAX, Frac(99, 100))
ClampedTail == Max(Frac(9, 10), Min(Frac(999, 1000), ConfiguredTail))

\* C11 as stated: the upstream_wait frames of a session never decrease and
\* none is above the configured PROGRESS_TAIL_MAX, whatever its value
C11_BelowConfiguredTail ==
  Streaming =>
    /\ NonDecreasing(WaitPercents)
    /\ \A i \in DOMAIN WaitPercents : WaitPercents[i] <= Pct10(ConfiguredTail)

\* C11 amended: the upstream_wait frames of a session never decrease, none
\* is below the headers_received fraction emitted before it, and none is
\* above PROGRESS_TAIL_MAX clamped to 0.9..0.999 (0.99 when unset), for
\* every configured ceiling and total time
C11_SoftMonotoneBelowCeiling ==
  Streaming =>
    LET waits == WaitPercents
        ceiling == Pct10(ClampedTail)
    IN /\ NonDecreasing(PercentsOf(out, "headers_received") \o waits)
       /\ \A i \in DOMAIN waits : waits[i] <= ceiling
       /\ pc = "reading" => progress <= ClampedTail

\* C11 witness: with PROGRESS_TAIL_MAX configured as 0.5 the estimator has
\* climbed in several frames to 90%
C11_Witness ==
  /\ ConfiguredTail = Frac(1, 2)
  /\ Len(WaitPercents) >= 3
  /\ WaitPercents[Len(WaitPercents)] = 900

\* the estimate of a tick at the current clock value
Estimate == Min(ClampedTail, ((now - started) * Scale) \div Max(TOTAL, EST_MIN_MS))
\* this step wrote an upstream_wait frame
WaitEmitted == Len(out') = Len(out) + 1 /\ IsWait(out'[Len(out')])
\* this step is a run of the soft-progress callback
SoftTickRan == softArmed /\ softDue' # softDue

\* C12: a step writes an upstream_wait frame only if it is a soft-progress
\* tick whose estimate exceeds the fraction tracked so far, which is never
\* below the last emitted one, by more than 0.02 and more than 200 ms have
\* passed since the last upstream_wait frame; the frame carries the
\* estimate; a tick that fails either condition writes nothing; while the
\* client is connected
C12_SoftEmitRule ==
  [][/\ WaitEmitted =>
          /\ SoftTickRan
          /\ Estimate > progress + Frac(2, 100)
          /\ now - lastEmit > THROTTLE_MS
          /\ PercentOf(out'[Len(out')]) = Pct10(Estimate)
          /\ progress' = Estimate
          /\ lastEmit' = now
     /\ (Writable /\ ~WaitEmitted) => lastEmit' = lastEmit
     /\ (SoftTickRan /\ ~(Estimate > progress + Frac(2, 100) /\ now - lastEmit > THROTTLE_MS))
          => out' = out
     /\ (pc = "reading" /\ pc' = "reading") => progress' >= progress
     /\ pc = "reading" =>
          LET waits == WaitPercents
          IN waits # <<>> => Pct10(progress) >= waits[Len(waits)]]_vars

\* C12 witness: a tick less than 200 ms after an upstream_wait frame has
\* raised the tracked fraction without writing a frame
C12_Witness ==
  /\ pc = "reading" /\ Writable
  /\ WaitPercents # <<>>
  /\ now - lastEmit <= THROTTLE_MS
  /\ Pct10(progress) > WaitPercents[Len(WaitPercents)]

----------------------------------------------------------------------------
(* The dispatcher *)

\* the provider the request names, bigmodel when it names none
NamedProvider ==
  IF req.body.fields.provider = Str("openrouter") THEN "openrouter" ELSE "bigmodel"
Dispatched == pc # "handler" /\ ~Throws(req)

\* C13: a request that passes normalization causes exactly one upstream
\* call, to the provider it selects, on every path: the call is not repeated
\* after a non-2xx status, a rejected call or a read fault, and nothing is
\* sent for a request that does not pass
C13_OneUpstreamCall ==
  /\ upCalls = Len(sent)
  /\ Dispatched => Len(sent) = 1 /\ sent[1].provider = NamedProvider
  /\ ~Dispatched => sent = <<>>

\* C13 witness: a streaming request to bigmodel was answered 429 and its
\* body then failed to read
C13_Witness ==
  /\ up.status = 429 /\ upEnd = "fault"
  /\ Len(sent) = 1 /\ sent[1].provider = "bigmodel" /\ sent[1].stream

\* C14: the stream flag in the upstream body equals streamFlag, and the
\* response is an event stream exactly when the upstream was asked to
\* stream, a JSON document exactly when it was not
C14_StreamFlagMirrored ==
  /\ \A i \in DOMAIN sent : sent[i].stream = streamFlag
  /\ (resp.kind = "stream" /\ sent # <<>>) => sent[1].stream
  /\ (resp.kind \in {"json", "error"} /\ sent # <<>>) => ~sent[1].stream
  /\ resp.kind = "stream" => sent # <<>>

\* C14 witness: a request to the analyze path asked for a stream in its
\* query string and got an event stream
C14_Witness ==
  /\ req.path = "/v1/vision/analyze" /\ req.query = Str("1")
  /\ req.body.fields.stream = Undefined
  /\ resp.kind = "stream" /\ sent # <<>> /\ sent[1].stream

\* the stream field of the body as the handler reads it
BodyStream == parseAnalyzePayload(req).fields.stream

\* C15: streamFlag follows path suffix > explicit body field > query
\* parameter: the /stream path streams; otherwise an explicit body stream
\* value decides, also against the query parameter; the query parameter
\* decides only when the body has no stream field
C15_StreamPrecedence ==
  Dispatched =>
    streamFlag =
      IF req.path = "/v1/vision/stream" THEN TRUE
      ELSE IF BodyStream.t # "undefined" THEN Truthy(BodyStream)
      ELSE getQueryFlag(req.query) = Bool(TRUE)

\* C16: a non-streaming response carries the upstream's status; its body is
\* the upstream's JSON value unmodified, or the structured error body when
\* the upstream's bytes are not JSON
C16_NonStreamForwardsVerbatim ==
  (resp.kind = "json") =>
    /\ resp.status = up.status
    /\ up.text \in {"object", "null"} => resp.body = JValue(up.text, "upstream", <<>>)
    /\ up.text \notin {"object", "null"} => resp.body = Obj("bad upstream json")

\* the request offers no image: no image_url, image_base64, images or file
NoImage ==
  \A k \in {"image_url", "image_base64", "images", "file"} :
    req.body.fields[k] = Undefined
\* the body is not in the encoding the request declares
BadEncoding ==
  \/ req.body.kind = "garbage"
  \/ req.ctype = "application/json" /\ req.body.kind = "form"
  \/ req.ctype = "multipart/form-data" /\ req.body.kind # "form"
  \/ req.ctype = "text/plain" /\ req.body.kind = "form"
ClientError == resp.kind = "error" /\ resp.status \in 400..499

\* C17: a request whose body does not parse in its declared encoding, or
\* that offers no image, is answered with a client error and causes no
\* upstream call
C17_MalformedRejected ==
  (BadEncoding \/ NoImage) =>
    /\ sent = <<>> /\ upCalls = 0
    /\ pc # "handler" => ClientError

\* C18: a failure found after the streaming response has started (the
\* upstream call rejects, the upstream has no body, a read fails) leaves an
\* error frame on the stream, which is then closed, and the status stays 200
C18_StreamFailuresInBand ==
  (/\ Streaming /\ transport # "cancelled"
   /\ pc \in {"done", "threw"}
   /\ upstream = "rejected" \/ (upstream = "resolved" /\ ~up.body) \/ upEnd = "fault")
    => /\ Count(out, IsError) >= 1
       /\ transport = "closed"
       /\ resp.status = 200

RasterTypes == {"image/jpeg", "image/png", "image/webp", "image/gif"}
Upload == req.body.fields.file
IsUpload ==
  req.ctype = "multipart/form-data" /\ req.body.kind = "form" /\ Upload.t = "file"

\* C19: a multipart request whose uploaded file has a declared type outside
\* jpeg, png, webp, gif is answered with a client error and causes no
\* upstream call
C19_UnsupportedMediaRejected ==
  (IsUpload /\ Upload.s \notin RasterTypes) =>
    /\ sent = <<>> /\ upCalls = 0
    /\ pc # "handler" => ClientError

\* C20: a multipart request with one uploaded file of a whitelisted type is
\* sent upstream with exactly one image part that is a data URI of the
\* file's declared type
C20_UploadBecomesDataUri ==
  (IsUpload /\ Upload.s \in RasterTypes /\ sent # <<>>) =>
    Cardinality({i \in DOMAIN sent[1].payload.content :
                   /\ sent[1].payload.content[i].type = "image_url"
                   /\ sent[1].payload.content[i].url.scheme = "data"
                   /\ sent[1].payload.content[i].url.mime = Upload.s}) = 1

----------------------------------------------------------------------------
(* The upstream payload *)

\* the AnalyzeInput of the request and the payload that was sent
Input == parseAnalyzePayload(req).fields
Payload == sent[1].payload
HardCodedModel ==
  IF sent[1].provider = "openrouter" THEN "qwen/qwen2.5-vl-72b-instruct" ELSE "glm-4.5v"
\* the content parts that are images
ContentImages == SelectSeq(Payload.content, LAMBDA part : part.type = "image_url")

C22_QueryProviderHonoured ==
  (Dispatched /\ req.qprovider = Str("openrouter") /\ Input.provider = Undefined)
    => sent[1].provider = "openrouter"

(* C23 as stated: the payload's model is the request's model when that is  *)
(* a non-empty string, else DEFAULT_MODEL when that is non-empty, else the *)
(* constant of the provider.                                               *)
C23_NonEmptyModelWins ==
  Dispatched =>
    Payload.model =
      IF Truthy(Input.model) THEN Input.model.s
      ELSE IF Truthy(env.DEFAULT_MODEL) THEN env.DEFAULT_MODEL.s
      ELSE HardCodedModel

(* C23 amended: the payload's model is the request's model with outer      *)
(* white space removed when that leaves a non-empty string, else           *)
(* DEFAULT_MODEL with outer white space removed when that leaves a         *)
(* non-empty string, else the constant of the provider, glm-4.5v for       *)
(* bigmodel and qwen/qwen2.5-vl-72b-instruct for openrouter.               *)
C23_ModelFallbacks ==
  Dispatched =>
    Payload.model =
      IF Input.model.t = "string" /\ trim(Input.model.s) # ""
      THEN trim(Input.model.s)
      ELSE IF env.DEFAULT_MODEL.t = "string" /\ trim(env.DEFAULT_MODEL.s) # ""
      THEN trim(env.DEFAULT_MODEL.s)
      ELSE HardCodedModel

\* a blank model in the request and a DEFAULT_MODEL with outer blanks
C23_Witness ==
  /\ Dispatched
  /\ Input.model = Str("  ")
  /\ env.DEFAULT_MODEL = Str(" m0 ")
  /\ Payload.model = "m0"

CanonicalImages(input) ==
  (IF input.images.t = "array" THEN Urls(input.images.a) ELSE <<>>)
  \o (IF Truthy(input.image_url) THEN <<Url(input.image_url.s)>> ELSE <<>>)
  \o (IF Truthy(input.image_base64)
      THEN <<DataUrl("image/png", input.image_base64.s)>> ELSE <<>>)

(* C25: for a JSON request the images of the payload are the entries of    *)
(* the images list, then image_url, then image_base64 as a data URI.       *)
C25_ListThenUrlThenBase64 ==
  (Dispatched /\ req.body.kind = "json")
    => ContentImages = ImageParts(CanonicalImages(Input))

\* the request's thinking is "enabled" or "disabled", as the string or as
\* the type of an object
ExplicitThinking ==
  \E v \in {"enabled", "disabled"} :
    Input.thinking \in {Str(v), TypeObj("string", v)}

(* C26: for bigmodel the payload has a thinking object exactly when the    *)
(* request's thinking is "enabled" or "disabled", with that value as its   *)
(* type; for every other value, and for openrouter, it has none.           *)
C26_ThinkingOnlyWhenExplicit ==
  Dispatched =>
    Payload.thinking =
      IF sent[1].provider = "bigmodel" /\ ExplicitThinking
      THEN TypeObj("string", Input.thinking.s)
      ELSE Undefined

(* C27: every image part carries the request's detail level, and none has  *)
(* a detail field when the request has no detail.                          *)
C27_DetailOnEveryImage ==
  Dispatched =>
    \A i \in DOMAIN ContentImages :
      ContentImages[i].detail =
        IF Input.detail \in {Str("low"), Str("high"), Str("auto")}
        THEN Input.detail ELSE Undefined

----------------------------------------------------------------------------
(* Termination of a stream session *)

(* C29: once the upstream body of a streaming response has ended or        *)
(* raised a read fault, the outbound transport is closed (by the worker,   *)
(* or already by the client) and both timers are cancelled.                *)
C29_EndedSessionReleased ==
  (Streaming /\ upEnd # "no") =>
    /\ transport \in {"closed", "cancelled"}
    /\ ~hbArmed /\ ~softArmed

----------------------------------------------------------------------------
(* The prompts API: the write routes POST /v1/prompts, PUT /v1/prompts/:id *)
(* and PUT /v1/prompts/:id/default.  A handler runs from one await of the  *)
(* database or the cache to the next in one step; the handlers of          *)
(* concurrent requests interleave at those awaits.  No cache entry expires *)
(* within a run.  Of a row the columns prompt_namespace,     *)
(* prompt_lang, prompt_is_active and prompt_is_default are kept.           *)

\* how many write requests arrive
MaxWrites == 3

visionVars == <<env, req, sent, streamFlag, pc, upCalls, upstream, up, upRead, upEnd,
                transport, out, resp, started, progress, lastEmit, hbArmed,
                softArmed, hbDue, softDue, lateLeft, now>>

Num(n) == JValue("number", n, <<>>)

\* ADMIN_TOKEN is set; the nonce check and the rate limit are off
PromptsEnv == [DefaultEnv EXCEPT !.ADMIN_TOKEN = Str("secret")]
InitPrompts ==
  InitWith({PromptsEnv},
           {Request("/v1/vision/analyze", Undefined, "application/json", GarbageBody)}, 0)

\* the X-Admin-Token header
Tokens == {Undefined, Str("secret"), Str("wrong")}
\* the JSON bodies of the write requests; complete says name and text are
\* present
NoBody ==
  [complete |-> FALSE, namespace |-> Undefined, lang |-> Undefined,
   is_active |-> Undefined, make_default |-> Undefined]
Complete == [NoBody EXCEPT !.complete = TRUE]
CreateBodies ==
  {NoBody, Complete,
   [Complete EXCEPT !.make_default = Bool(TRUE)],
   [Complete EXCEPT !.make_default = Bool(TRUE), !.lang = Str("en")],
   [Complete EXCEPT !.make_default = Bool(TRUE), !.is_active = Num("0")]}
\* no field, or one of the fields namespace, lang and is_active
UpdateBodies ==
  {NoBody,
   [NoBody EXCEPT !.namespace = Str("n2")],
   [NoBody EXCEPT !.lang = Str("ru")],
   [NoBody EXCEPT !.is_active = Num("0")]}

\* a || b on strings
OrElse(v, d) == IF Truthy(v) THEN v.s ELSE d
\* typeof v === "number" ? v : d
NumberOr(v, d) == IF v.t = "number" THEN (IF v.s = "1" THEN 1 ELSE 0) ELSE d

Row(ns, lang, active, dflt) == [ns |-> ns, lang |-> lang, active |-> active, dflt |-> dflt]
NoRow == [ns |-> "", lang |-> "", active |-> 0]
\* SELECT prompt_namespace, prompt_lang, prompt_is_active ... first()
SelectRow(id) == [ns |-> db[id].ns, lang |-> db[id].lang, active |-> db[id].active]

\* (header || "") !== (env.ADMIN_TOKEN || "")
Authorized(token) == OrElse(token, "") = OrElse(env.ADMIN_TOKEN, "")

\* v ?? d on strings
Nullish(v, d) == IF v.t \in {"undefined", "null"} THEN d ELSE v.s
\* the keys of PROMPT_CACHE
promptsKVKeyList(ns, lang, act) ==
  "list:" \o ns \o ":" \o Nullish(lang, "*") \o ":" \o Nullish(act, "*")
promptsKVKeyById(id) == "id:" \o ToString(id)
promptsKVKeyDefault(ns, lang) == "default:" \o ns \o ":" \o lang
nonceKey(nonce) == "nonce:" \o nonce
rateLimitKey(routeKey, admin) ==
  "rl:" \o routeKey \o ":" \o OrElse(admin, "no-admin") \o ":" \o "0.0.0.0"
routeKeyOf(op) ==
  CASE op = "create" -> "prompts_create"
    [] op = "update" -> "prompts_update"
    [] OTHER -> "prompts_set_default"

\* PROMPT_CACHE.get, .put and .delete
Cached(key) == key \in DOMAIN kv
Put(store, key, value) ==
  [k \in DOMAIN store \cup {key} |-> IF k = key THEN value ELSE store[k]]
Delete(store, key) == [k \in DOMAIN store \ {key} |-> store[k]]

\* parseIntEnv, on the decimal strings the model uses
parseIntEnv(v, d) ==
  IF ~Truthy(v) THEN d
  ELSE CASE v.s = "0" -> 0
         [] v.s = "1" -> 1
         [] v.s = "2" -> 2
         [] OTHER -> d
NonceRequired == env.ENABLE_NONCE_REQUIRED_FOR_WRITE = Str("1")
RateLimit == parseIntEnv(env.WRITE_RL_LIMIT, 0)

\* a request of the prompts API at an await: n its arrival number, token,
\* nonce and auth its X-Admin-Token, X-Nonce and Authorization headers, pc the
\* await, cur the row a write handler has read, keys the cache keys it has
\* still to delete, rec the rate-limit record it is about to put, query and
\* data the parameters and the result of a read
NoQuery ==
  [namespace |-> Undefined, lang |-> Undefined, active |-> Undefined,
   limit |-> Undefined]
NoHandler ==
  [n |-> 0, op |-> "none", token |-> Undefined, nonce |-> Undefined,
   auth |-> Undefined, id |-> 0,
   body |-> NoBody, pc |-> "first", cur |-> NoRow, keys |-> <<>>, rec |-> 0,
   query |-> NoQuery, data |-> <<>>]
Handler(n, op, id, body) ==
  [NoHandler EXCEPT !.n = n, !.op = op, !.id = id, !.body = body]

\* no request is in flight
Quiescent == inflight = {}

\* the handler returns the response
Returns(h, status, code) ==
  /\ reply' = [op |-> h.op, status |-> status, code |-> code, data |-> <<>>]
  /\ inflight' = inflight \ {h}
\* the handler goes on to its next await
Continues(h, next) ==
  /\ inflight' = (inflight \ {h}) \cup {next}
  /\ UNCHANGED reply

\* the body is read: CREATE answers 400 unless name and text are there
ToBody(h) ==
  IF h.op = "create" /\ ~h.body.complete THEN Returns(h, 400, "BAD_INPUT")
  ELSE Continues(h, [h EXCEPT !.pc = "first"])
\* rateLimitWrite up to its first await
ToRateLimit(h) ==
  IF RateLimit <= 0 THEN ToBody(h)
  ELSE Continues(h, [h EXCEPT !.pc = "rl_get"])
\* verifyNonce up to its first await
ToNonce(h) ==
  IF ~NonceRequired THEN ToRateLimit(h)
  ELSE IF ~Truthy(h.nonce) THEN Returns(h, 400, "NONCE_REQUIRED")
  ELSE Continues(h, [h EXCEPT !.pc = "nonce_get"])

\* a write request arrives: the token is compared, then verifyNonce,
\* rateLimitWrite and the body follow
Arrives(op, token, nonce, id, body) ==
  /\ writes < MaxWrites
  /\ writes' = writes + 1
  /\ UNCHANGED <<db, kv, reads>>
  /\ LET h == [Handler(writes + reads + 1, op, id, body)
                 EXCEPT !.token = token, !.nonce = nonce]
     IN IF ~Authorized(token) THEN Returns(h, 401, "UNAUTHORIZED")
        ELSE ToNonce(h)

\* verifyNonce: PROMPT_CACHE.get of the nonce
NonceGet ==
  /\ \E h \in inflight :
       /\ h.pc = "nonce_get"
       /\ IF Cached(nonceKey(h.nonce.s)) THEN Returns(h, 409, "REPLAY")
          ELSE Continues(h, [h EXCEPT !.pc = "nonce_put"])
  /\ UNCHANGED <<db, kv, writes, reads, visionVars>>

\* verifyNonce: PROMPT_CACHE.put of the nonce
NoncePut ==
  /\ \E h \in inflight :
       /\ h.pc = "nonce_put"
       /\ kv' = Put(kv, nonceKey(h.nonce.s), "1")
       /\ ToRateLimit(h)
  /\ UNCHANGED <<db, writes, reads, visionVars>>

\* rateLimitWrite: PROMPT_CACHE.get of the counter; 429 when it has
\* reached the limit
RateLimitGet ==
  /\ \E h \in inflight :
       /\ h.pc = "rl_get"
       /\ LET key == rateLimitKey(routeKeyOf(h.op), h.token)
          IN IF ~Cached(key) THEN Continues(h, [h EXCEPT !.pc = "rl_put", !.rec = 1])
             ELSE IF kv[key] >= RateLimit THEN Returns(h, 429, "RATE_LIMITED")
             ELSE Continues(h, [h EXCEPT !.pc = "rl_put", !.rec = kv[key] + 1])
  /\ UNCHANGED <<db, kv, writes, reads, visionVars>>

\* rateLimitWrite: PROMPT_CACHE.put of the counter
RateLimitPut ==
  /\ \E h \in inflight :
       /\ h.pc = "rl_put"
       /\ kv' = Put(kv, rateLimitKey(routeKeyOf(h.op), h.token), h.rec)
       /\ ToBody(h)
  /\ UNCHANGED <<db, writes, reads, visionVars>>

\* the cache keys a write handler deletes after its last statement
CreateKeys(h) ==
  LET ns == OrElse(h.body.namespace, "default")
      lang == OrElse(h.body.lang, "ru")
  IN <<promptsKVKeyList(ns, Str(lang), Str(ToString(NumberOr(h.body.is_active, 1)))),
       promptsKVKeyList(ns, Str(lang), Str("*")),
       promptsKVKeyList(ns, Str("*"), Str("*"))>>
UpdateKeys(h, cur) ==
  <<promptsKVKeyById(h.id),
    promptsKVKeyList(cur.ns, Str(cur.lang), Str(ToString(cur.active))),
    promptsKVKeyList(cur.ns, Str(cur.lang), Str("*"))>>
SetDefaultKeys(cur) ==
  <<promptsKVKeyDefault(cur.ns, cur.lang),
    promptsKVKeyList(cur.ns, Str(cur.lang), Str("*"))>>
Invalidates(h, keys) == [h EXCEPT !.pc = "invalidate", !.keys = keys]

CreateArrivesFrom(tokens, nonces, bodies) ==
  /\ \E token \in tokens, nonce \in nonces, body \in bodies :
       Arrives("create", token, nonce, 0, body)
  /\ UNCHANGED visionVars
CreateArrives == CreateArrivesFrom(Tokens, {Undefined}, CreateBodies)

\* INSERT with prompt_is_default 0; the id is last_row_id
CreateInsert ==
  /\ \E h \in inflight :
       /\ h.op = "create" /\ h.pc = "first"
       /\ db' = Append(db, Row(OrElse(h.body.namespace, "default"),
                               OrElse(h.body.lang, "ru"),
                               NumberOr(h.body.is_active, 1), 0))
       /\ IF Truthy(h.body.make_default)
          THEN Continues(h, [h EXCEPT !.id = Len(db) + 1, !.pc = "batch"])
          ELSE Continues(h, Invalidates([h EXCEPT !.id = Len(db) + 1], CreateKeys(h)))
  /\ UNCHANGED <<kv, writes, reads, visionVars>>

\* db.batch of the two UPDATEs: every default of the pair is reset, then row
\* id is made the default
makeDefault(rows, ns, lang, id) ==
  [i \in DOMAIN rows |->
     IF i = id THEN [rows[i] EXCEPT !.dflt = 1]
     ELSE IF rows[i].ns = ns /\ rows[i].lang = lang THEN [rows[i] EXCEPT !.dflt = 0]
     ELSE rows[i]]

\* make_default of CREATE: the batch for the pair of the body
CreateMakeDefault ==
  /\ \E h \in inflight :
       /\ h.op = "create" /\ h.pc = "batch"
       /\ db' = makeDefault(db, OrElse(h.body.namespace, "default"),
                            OrElse(h.body.lang, "ru"), h.id)
       /\ Continues(h, Invalidates(h,
            <<promptsKVKeyDefault(OrElse(h.body.namespace, "default"),
                                  OrElse(h.body.lang, "ru"))>>
            \o CreateKeys(h)))
  /\ UNCHANGED <<kv, writes, reads, visionVars>>

UpdateArrivesFrom(tokens, nonces, bodies) ==
  /\ \E token \in tokens, nonce \in nonces, id \in 1..(Len(db) + 1), body \in bodies :
       Arrives("update", token, nonce, id, body)
  /\ UNCHANGED visionVars
UpdateArrives == UpdateArrivesFrom(Tokens, {Undefined}, UpdateBodies)

\* the fields of the body that UPDATE sets
NoUpdates(body) ==
  body.namespace = Undefined /\ body.lang = Undefined /\ body.is_active = Undefined

\* SELECT of the current row; 404 without a row, 400 without fields
UpdateSelect ==
  /\ \E h \in inflight :
       /\ h.op = "update" /\ h.pc = "first"
       /\ IF h.id \notin DOMAIN db THEN Returns(h, 404, "NOT_FOUND")
          ELSE IF NoUpdates(h.body) THEN Returns(h, 400, "NO_UPDATES")
          ELSE Continues(h, [h EXCEPT !.cur = SelectRow(h.id), !.pc = "update"])
  /\ UNCHANGED <<db, kv, writes, reads, visionVars>>

\* UPDATE prompts SET <the fields of the body> WHERE prompt_id = id
UpdateRun ==
  /\ \E h \in inflight :
       /\ h.op = "update" /\ h.pc = "update"
       /\ db' = [db EXCEPT ![h.id] =
                   [@ EXCEPT !.ns = OrElse(h.body.namespace, @),
                             !.lang = OrElse(h.body.lang, @),
                             !.active = NumberOr(h.body.is_active, @)]]
       /\ Continues(h, Invalidates(h, UpdateKeys(h, h.cur)))
  /\ UNCHANGED <<kv, writes, reads, visionVars>>

SetDefaultArrivesFrom(tokens, nonces) ==
  /\ \E token \in tokens, nonce \in nonces, id \in 1..(Len(db) + 1) :
       Arrives("set_default", token, nonce, id, NoBody)
  /\ UNCHANGED visionVars
SetDefaultArrives == SetDefaultArrivesFrom(Tokens, {Undefined})

\* SELECT of the row; 404 without a row, 400 unless it is active
SetDefaultSelectAnyState ==
  /\ \E h \in inflight :
       /\ h.op = "set_default" /\ h.pc = "first"
       /\ IF h.id \notin DOMAIN db THEN Returns(h, 404, "NOT_FOUND")
          ELSE Continues(h, [h EXCEPT !.cur = SelectRow(h.id), !.pc = "batch"])
  /\ UNCHANGED <<db, kv, writes, reads, visionVars>>
SetDefaultSelect ==
  /\ \E h \in inflight :
       /\ h.op = "set_default" /\ h.pc = "first"
       /\ IF h.id \notin DOMAIN db THEN Returns(h, 404, "NOT_FOUND")
          ELSE IF db[h.id].active # 1 THEN Returns(h, 400, "BAD_STATE")
          ELSE Continues(h, [h EXCEPT !.cur = SelectRow(h.id), !.pc = "batch"])
  /\ UNCHANGED <<db, kv, writes, reads, visionVars>>

\* the batch for the pair that was read
SetDefaultBatch ==
  /\ \E h \in inflight :
       /\ h.op = "set_default" /\ h.pc = "batch"
       /\ db' = makeDefault(db, h.cur.ns, h.cur.lang, h.id)
       /\ Continues(h, Invalidates(h, SetDefaultKeys(h.cur)))
  /\ UNCHANGED <<kv, writes, reads, visionVars>>

\* PROMPT_CACHE.delete of the next key; after the last one the handler
\* returns
Invalidate ==
  /\ \E h \in inflight :
       /\ h.pc = "invalidate"
       /\ kv' = Delete(kv, Head(h.keys))
       /\ IF Len(h.keys) = 1 THEN Returns(h, IF h.op = "create" THEN 201 ELSE 200, "")
          ELSE Continues(h, [h EXCEPT !.keys = Tail(h.keys)])
  /\ UNCHANGED <<db, writes, reads, visionVars>>

NextPrompts ==
  \/ CreateArrives
  \/ CreateInsert
  \/ CreateMakeDefault
  \/ UpdateArrives
  \/ UpdateSelect
  \/ UpdateRun
  \/ SetDefaultArrives
  \/ SetDefaultSelect
  \/ SetDefaultBatch
  \/ Invalidate

SpecPrompts == InitPrompts /\ [][NextPrompts]_vars

----------------------------------------------------------------------------
(* The read endpoints: GET /v1/prompts/:id, GET /v1/prompts/default and    *)
(* GET /v1/prompts, each read-through PROMPT_CACHE.  The requests carry no *)
(* q, tag, offset or sort parameter.                                       *)

MaxReads == 2

\* auth.startsWith('Bearer ') and auth.slice(7), on the headers the model
\* uses
startsWithBearer(s) == s \in {"Bearer rtoken", "Bearer wrong", "Bearer  rtoken"}
slice7(s) ==
  CASE s = "Bearer rtoken" -> "rtoken"
    [] s = "Bearer wrong" -> "wrong"
    [] s = "Bearer  rtoken" -> " rtoken"
    [] OTHER -> ""
\* trim of a token with an outer blank
trimToken(s) == IF s = " rtoken" THEN "rtoken" ELSE trim(s)

requireReadAuth ==
  /\ env.REQUIRE_READ_AUTH = Str("1")
  /\ Truthy(env.READ_BEARER_TOKEN)
  /\ trimToken(env.READ_BEARER_TOKEN.s) # ""
\* verifyReadAuth lets the request through
ReadAllowedAnyBearer(auth) ==
  \/ ~requireReadAuth
  \/ startsWithBearer(OrElse(auth, ""))
ReadAllowed(auth) ==
  \/ ~requireReadAuth
  \/ /\ startsWithBearer(OrElse(auth, ""))
     /\ trimToken(slice7(OrElse(auth, ""))) = trimToken(OrElse(env.READ_BEARER_TOKEN, ""))

\* mapPromptRow of row id
mapPromptRow(id) ==
  [id |-> id, ns |-> db[id].ns, lang |-> db[id].lang,
   active |-> db[id].active, dflt |-> db[id].dflt]

\* !q && !tag && offset === 0 && sortParam === 'priority_asc' && hasPrioCol:
\* the table has the prompt_priority column
canCache == TRUE

\* Number(v) on the decimal strings the model uses
NumberOf(s) ==
  CASE s = "0" -> 0
    [] s = "1" -> 1
    [] s = "2" -> 2
    [] OTHER -> 500
\* Math.max(1, Math.min(100, Number(limit || 50)))
limitOf(query) ==
  Max(1, Min(100, IF Truthy(query.limit) THEN NumberOf(query.limit.s) ELSE 50))

\* the rows the WHERE clause of LIST selects, in the order of the table
Matching(query) ==
  LET all == [i \in DOMAIN db |-> mapPromptRow(i)]
      Where(r) ==
        /\ r.ns = OrElse(query.namespace, "default")
        /\ Truthy(query.lang) => r.lang = query.lang.s
        /\ Truthy(query.active) => r.active = NumberOf(query.active.s)
  IN SelectSeq(all, Where)
\* ... LIMIT ? OFFSET 0
ListSelect(query) ==
  SubSeq(Matching(query), 1, Min(limitOf(query), Len(Matching(query))))
listKeyOf(query) ==
  promptsKVKeyList(OrElse(query.namespace, "default"),
                   IF Truthy(query.lang) THEN query.lang ELSE Undefined,
                   IF Truthy(query.active) THEN query.active ELSE Undefined)
defaultKeyOf(query) ==
  promptsKVKeyDefault(OrElse(query.namespace, "default"), OrElse(query.lang, "ru"))
\* the ids of the rows that are the default of the pair of the query
Defaults(query) ==
  {i \in DOMAIN db : /\ db[i].ns = OrElse(query.namespace, "default")
                     /\ db[i].lang = OrElse(query.lang, "ru")
                     /\ db[i].dflt = 1}

\* the handler returns 200 with the data
ReturnsData(h, data) ==
  /\ reply' = [op |-> h.op, status |-> 200, code |-> "", data |-> data]
  /\ inflight' = inflight \ {h}

\* a read request arrives: verifyReadAuth, then PROMPT_CACHE.get is awaited
ReadArrives(op, auth, id, query) ==
  /\ reads < MaxReads
  /\ reads' = reads + 1
  /\ UNCHANGED <<db, kv, writes>>
  /\ LET h == [Handler(writes + reads + 1, op, id, NoBody)
                 EXCEPT !.auth = auth, !.query = query, !.pc = "cache"]
     IN IF ~ReadAllowed(auth) THEN Returns(h, 401, "UNAUTHORIZED")
        ELSE Continues(h, h)

\* the Authorization header
Auths == {Undefined, Str("Bearer rtoken"), Str("Bearer wrong"), Str("rtoken"),
          Str("Bearer  rtoken")}
\* the query parameters of GET /v1/prompts
ListQueries == {NoQuery, [NoQuery EXCEPT !.limit = Str("1")]}

GetArrivesFrom(auths) ==
  /\ \E auth \in auths, id \in 1..(Len(db) + 1) : ReadArrives("get", auth, id, NoQuery)
  /\ UNCHANGED visionVars

\* the cache answers: a hit is returned as it is
GetCached ==
  /\ \E h \in inflight :
       /\ h.op = "get" /\ h.pc = "cache"
       /\ IF Cached(promptsKVKeyById(h.id))
          THEN ReturnsData(h, kv[promptsKVKeyById(h.id)])
          ELSE Continues(h, [h EXCEPT !.pc = "select"])
  /\ UNCHANGED <<db, kv, writes, reads, visionVars>>

\* SELECT * FROM prompts WHERE prompt_id = ?
GetSelect ==
  /\ \E h \in inflight :
       /\ h.op = "get" /\ h.pc = "select"
       /\ IF h.id \notin DOMAIN db THEN Returns(h, 404, "NOT_FOUND")
          ELSE Continues(h, [h EXCEPT !.data = <<mapPromptRow(h.id)>>, !.pc = "put"])
  /\ UNCHANGED <<db, kv, writes, reads, visionVars>>

\* PROMPT_CACHE.put of the row, then the response
GetPut ==
  /\ \E h \in inflight :
       /\ h.op = "get" /\ h.pc = "put"
       /\ kv' = Put(kv, promptsKVKeyById(h.id), h.data)
       /\ ReturnsData(h, h.data)
  /\ UNCHANGED <<db, writes, reads, visionVars>>

DefaultArrivesFrom(auths, queries) ==
  /\ \E auth \in auths, query \in queries : ReadArrives("get_default", auth, 0, query)
  /\ UNCHANGED visionVars

DefaultCached ==
  /\ \E h \in inflight :
       /\ h.op = "get_default" /\ h.pc = "cache"
       /\ IF Cached(defaultKeyOf(h.query))
          THEN ReturnsData(h, kv[defaultKeyOf(h.query)])
          ELSE Continues(h, [h EXCEPT !.pc = "select"])
  /\ UNCHANGED <<db, kv, writes, reads, visionVars>>

\* SELECT ... WHERE namespace, lang and prompt_is_default = 1 LIMIT 1: any
\* of the rows that match
DefaultSelect ==
  /\ \E h \in inflight :
       /\ h.op = "get_default" /\ h.pc = "select"
       /\ IF Defaults(h.query) = {} THEN Returns(h, 404, "NOT_FOUND")
          ELSE \E i \in Defaults(h.query) :
                 Continues(h, [h EXCEPT !.data = <<mapPromptRow(i)>>, !.pc = "put"])
  /\ UNCHANGED <<db, kv, writes, reads, visionVars>>

DefaultPut ==
  /\ \E h \in inflight :
       /\ h.op = "get_default" /\ h.pc = "put"
       /\ kv' = Put(kv, defaultKeyOf(h.query), h.data)
       /\ ReturnsData(h, h.data)
  /\ UNCHANGED <<db, writes, reads, visionVars>>

ListArrivesFrom(auths, queries) ==
  /\ \E auth \in auths, query \in queries : ReadArrives("list", auth, 0, query)
  /\ UNCHANGED visionVars

\* the key of the list cache holds namespace, lang and active
ListCached ==
  /\ \E h \in inflight :
       /\ h.op = "list" /\ h.pc = "cache"
       /\ IF canCache /\ Cached(listKeyOf(h.query))
          THEN ReturnsData(h, kv[listKeyOf(h.query)])
          ELSE Continues(h, [h EXCEPT !.pc = "select"])
  /\ UNCHANGED <<db, kv, writes, reads, visionVars>>

\* SELECT * FROM prompts WHERE ... LIMIT ? OFFSET ?
ListSelectRuns ==
  /\ \E h \in inflight :
       /\ h.op = "list" /\ h.pc = "select"
       /\ Continues(h, [h EXCEPT !.data = ListSelect(h.query), !.pc = "put"])
  /\ UNCHANGED <<db, kv, writes, reads, visionVars>>

ListPut ==
  /\ \E h \in inflight :
       /\ h.op = "list" /\ h.pc = "put"
       /\ kv' = IF canCache THEN Put(kv, listKeyOf(h.query), h.data) ELSE kv
       /\ ReturnsData(h, h.data)
  /\ UNCHANGED <<db, writes, reads, visionVars>>

\* reads and writes together: every write carries the admin token, and at
\* most MaxInFlight requests are in flight at a time
MaxInFlight == 2

NextCache ==
  \/ Cardinality(inflight) < MaxInFlight /\ CreateArrivesFrom({Str("secret")}, {Undefined},
       {Complete, [Complete EXCEPT !.make_default = Bool(TRUE)]})
  \/ CreateInsert
  \/ CreateMakeDefault
  \/ Cardinality(inflight) < MaxInFlight /\ UpdateArrivesFrom({Str("secret")}, {Undefined},
       {[NoBody EXCEPT !.namespace = Str("n2")], [NoBody EXCEPT !.is_active = Num("0")]})
  \/ UpdateSelect
  \/ UpdateRun
  \/ Cardinality(inflight) < MaxInFlight /\ SetDefaultArrivesFrom({Str("secret")}, {Undefined})
  \/ SetDefaultSelect
  \/ SetDefaultBatch
  \/ Invalidate
  \/ Cardinality(inflight) < MaxInFlight /\ GetArrivesFrom({Undefined})
  \/ GetCached
  \/ GetSelect
  \/ GetPut
  \/ Cardinality(inflight) < MaxInFlight /\ DefaultArrivesFrom({Undefined}, {NoQuery})
  \/ DefaultCached
  \/ DefaultSelect
  \/ DefaultPut
  \/ Cardinality(inflight) < MaxInFlight /\ ListArrivesFrom({Undefined}, ListQueries)
  \/ ListCached
  \/ ListSelectRuns
  \/ ListPut

SpecCache == InitPrompts /\ [][NextCache]_vars

\* reads need the bearer token rtoken, writes the admin token
ReadAuthEnv ==
  [PromptsEnv EXCEPT !.REQUIRE_READ_AUTH = Str("1"), !.READ_BEARER_TOKEN = Str("rtoken")]
InitReadAuth ==
  InitWith({ReadAuthEnv},
           {Request("/v1/vision/analyze", Undefined, "application/json", GarbageBody)}, 0)

\* the requests come one at a time: the next one arrives when the one
\* before it has returned
NextSerial ==
  \/ Quiescent /\ CreateArrivesFrom({Str("secret")}, {Undefined},
       {[Complete EXCEPT !.make_default = Bool(TRUE)], [Complete EXCEPT !.is_active = Num("0")]})
  \/ CreateInsert
  \/ CreateMakeDefault
  \/ Quiescent /\ UpdateArrivesFrom({Str("secret")}, {Undefined},
       {[NoBody EXCEPT !.is_active = Num("0")]})
  \/ UpdateSelect
  \/ UpdateRun
  \/ Quiescent /\ SetDefaultArrivesFrom({Str("secret")}, {Undefined})
  \/ SetDefaultSelect
  \/ SetDefaultBatch
  \/ Invalidate
  \/ Quiescent /\ GetArrivesFrom(Auths)
  \/ GetCached
  \/ GetSelect
  \/ GetPut
  \/ Quiescent /\ DefaultArrivesFrom(Auths, {NoQuery})
  \/ DefaultCached
  \/ DefaultSelect
  \/ DefaultPut
  \/ Quiescent /\ ListArrivesFrom(Auths, ListQueries)
  \/ ListCached
  \/ ListSelectRuns
  \/ ListPut

SpecSerial == InitReadAuth /\ [][NextSerial]_vars

\* the guards of the writes: ADMIN_TOKEN not configured, the nonce check on,
\* the rate limit at one write per window
NonceEnv == [PromptsEnv EXCEPT !.ENABLE_NONCE_REQUIRED_FOR_WRITE = Str("1")]
RateLimitEnv == [PromptsEnv EXCEPT !.WRITE_RL_LIMIT = Str("1")]
InitGuards ==
  InitWith({DefaultEnv, NonceEnv, RateLimitEnv},
           {Request("/v1/vision/analyze", Undefined, "application/json", GarbageBody)}, 0)

\* the X-Nonce header
Nonces == {Undefined, Str("n1")}

NextGuards ==
  \/ CreateArrivesFrom(Tokens, Nonces, {NoBody, Complete})
  \/ UpdateArrivesFrom(Tokens, Nonces, {[NoBody EXCEPT !.is_active = Num("0")]})
  \/ SetDefaultArrivesFrom(Tokens, Nonces)
  \/ NonceGet
  \/ NoncePut
  \/ RateLimitGet
  \/ RateLimitPut
  \/ CreateInsert
  \/ UpdateSelect
  \/ UpdateRun
  \/ SetDefaultSelect
  \/ SetDefaultBatch
  \/ Invalidate

SpecGuards == InitGuards /\ [][NextGuards]_vars


(* C30: whenever every write request has returned, each (namespace, lang)  *)
(* pair has at most one prompt with is_default = 1.                        *)
C30_OneDefaultPerPair ==
  Quiescent =>
    \A i, j \in DOMAIN db :
      (db[i].dflt = 1 /\ db[j].dflt = 1 /\ db[i].ns = db[j].ns /\ db[i].lang = db[j].lang)
        => i = j

(* C40: whenever every write request has returned, every prompt with       *)
(* is_default = 1 has is_active = 1.                                       *)
C40_DefaultIsActive ==
  Quiescent => \A i \in DOMAIN db : db[i].dflt = 1 => db[i].active = 1

----------------------------------------------------------------------------
(* The cache of the read endpoints *)

\* the entry under key, when there is one, is what the database yields
IdFresh(id) ==
  Cached(promptsKVKeyById(id)) => kv[promptsKVKeyById(id)] = <<mapPromptRow(id)>>
DefaultFresh(query) ==
  Cached(defaultKeyOf(query)) =>
    \E i \in Defaults(query) : kv[defaultKeyOf(query)] = <<mapPromptRow(i)>>
\* for a list: under the limit of one of the requests
ListFresh(query) ==
  Cached(listKeyOf(query)) =>
    \E k \in 1..100 :
      kv[listKeyOf(query)] = SubSeq(Matching(query), 1, Min(k, Len(Matching(query))))

(* C31: whenever no request is in flight, every entry of the cache that a  *)
(* read endpoint would return is what the database holds: the row for an   *)
(* id key, a default of the pair for a default key, the matching rows up   *)
(* to a limit for a list key.                                              *)
C31_CacheMatchesDatabase ==
  Quiescent =>
    /\ \A id \in DOMAIN db : IdFresh(id)
    /\ DefaultFresh(NoQuery)
    /\ \A query \in ListQueries : ListFresh(query)

\* no PUT /v1/prompts/:id is in flight
UpdatesReturned == \A h \in inflight : h.op # "update"
\* the fields that UPDATE writes
Updated(r) == [ns |-> r.ns, lang |-> r.lang, active |-> r.active]

(* C32: whenever every PUT /v1/prompts/:id has returned, the entry that a  *)
(* GET /v1/prompts/:id starting now is served from the cache carries the   *)
(* namespace, lang and is_active of the row in the database.               *)
C32_GetAfterUpdate ==
  UpdatesReturned =>
    \A id \in DOMAIN db :
      Cached(promptsKVKeyById(id)) =>
        Updated(kv[promptsKVKeyById(id)][1]) = Updated(db[id])

(* C37: a GET /v1/prompts is answered with at most limit items, limit the  *)
(* query value clamped to 1..100 with default 50: both the list it is      *)
(* about to be served from the cache and the list it has selected.         *)
C37_ListWithinLimit ==
  \A h \in inflight :
    h.op = "list" =>
      /\ (h.pc = "cache" /\ Cached(listKeyOf(h.query)))
           => Len(kv[listKeyOf(h.query)]) <= limitOf(h.query)
      /\ h.pc = "put" => Len(h.data) <= limitOf(h.query)

\* handler h returns in this step
Returned(h) == \A g \in inflight' : g.n # h.n
\* the step starts or ends a PUT /v1/prompts/:id/default that is refused
Refused(h) ==
  /\ h.op = "set_default"
  /\ \/ h \in inflight' \ inflight /\ h.pc = "first"
     \/ h \in inflight /\ Returned(h) /\ reply'.status \in {400, 404}

(* C34: a PUT /v1/prompts/:id/default that passed the token check answers  *)
(* 404 when the id is unknown and 400 BAD_STATE when the prompt it reads   *)
(* is not active, answers 200 only for a prompt it read as active, and no  *)
(* step of a refused request changes the table or the cache.               *)
C34_SetDefaultRefusals ==
  [][\A h \in inflight \cup inflight' :
       /\ (h \in inflight /\ h.op = "set_default" /\ Returned(h)) =>
            /\ h.id \notin DOMAIN db => reply'.status = 404
            /\ (h.pc = "first" /\ h.id \in DOMAIN db /\ db[h.id].active # 1)
                 => reply'.status = 400 /\ reply'.code = "BAD_STATE"
            /\ reply'.status = 200 => h.id \in DOMAIN db /\ h.cur.active = 1
       /\ Refused(h) => UNCHANGED <<db, kv>>]_vars
\* an inactive prompt was refused while the cache held entries and the pair
\* had a default
C34_Witness ==
  /\ reply.op = "set_default" /\ reply.code = "BAD_STATE"
  /\ kv # <<>>
  /\ \E i \in DOMAIN db : db[i].dflt = 1

ReadOps == {"get", "get_default", "list"}
\* Authorization: Bearer rtoken, also with a blank more before the token
Bearers == {Str("Bearer rtoken"), Str("Bearer  rtoken")}
ReadAuthOn ==
  env.REQUIRE_READ_AUTH = Str("1") /\ env.READ_BEARER_TOKEN = Str("rtoken")

(* C38: with REQUIRE_READ_AUTH '1' and READ_BEARER_TOKEN set, a GET of the *)
(* prompts API without the bearer token never gets past its arrival: it is *)
(* answered 401 with no data, only requests with the token are in flight   *)
(* and look up the cache, and only they are answered with data.            *)
C38_ReadsNeedBearer ==
  [][ReadAuthOn =>
       /\ \A h \in inflight' : h.op \in ReadOps => h.auth \in Bearers
       /\ (reads' # reads /\ inflight' = inflight)
            => reply'.op \in ReadOps /\ reply'.status = 401 /\ reply'.data = <<>>
       /\ \A h \in inflight :
            (h.op \in ReadOps /\ Returned(h) /\ reply'.data # <<>>) => h.auth \in Bearers]_vars
\* a GET /v1/prompts/1 was answered 401 while id:1 was in the cache
C38_Witness ==
  /\ ReadAuthOn
  /\ reply.op = "get" /\ reply.status = 401 /\ reply.data = <<>>
  /\ Cached(promptsKVKeyById(1))

----------------------------------------------------------------------------
(* The guards of the write endpoints *)

WriteOps == {"create", "update", "set_default"}

(* C33: in every configuration, a write request gets past the token check  *)
(* only with an X-Admin-Token header that equals ADMIN_TOKEN: every write  *)
(* handler in flight carries one.                                          *)
C33_WritesNeedAdminToken ==
  \A h \in inflight :
    h.op \in WriteOps => Truthy(h.token) /\ h.token = env.ADMIN_TOKEN

(* C35: with WRITE_RL_LIMIT = L > 0, at most L of the POST /v1/prompts     *)
(* requests of one admin token and one client within a window are          *)
(* admitted: the table never gets more than L rows.                        *)
C35_RateLimitHolds == RateLimit > 0 => Len(db) <= RateLimit

(* C36: with ENABLE_NONCE_REQUIRED_FOR_WRITE = 1, each X-Nonce value lets  *)
(* at most one write through: the table never gets more rows than there    *)
(* are nonce values.                                                       *)
C36_NonceOnce ==
  NonceRequired => Len(db) <= Cardinality({nonce \in Nonces : Truthy(nonce)})

----------------------------------------------------------------------------
(* Progress across the phases of a stream *)

Phases == {"queued", "selecting_provider", "headers_received", "upstream_wait", "finalize"}
IsAnyProgress(item) == \E phase \in Phases : IsProgress(item, phase)
\* the percent values of all progress frames, in stream order
RECURSIVE ProgressPercents(_)
ProgressPercents(seq) ==
  IF seq = <<>> THEN <<>>
  ELSE (IF IsAnyProgress(Head(seq)) THEN <<PercentOf(Head(seq))>> ELSE <<>>)
       \o ProgressPercents(Tail(seq))

(* C39: within one streaming response the percent values of successive    *)
(* progress frames, of whatever phase, never decrease.                     *)
C39_PercentsNeverDecrease ==
  Streaming => NonDecreasing(ProgressPercents(out))


====
